---- MODULE Spec2Model ----
(***************************************************************************)
(* Model of the grid-map history system of instructable-pcgrl:             *)
(*   src/lib/store/history/history.ts            (gridHistory store)       *)
(*   src/lib/store/history/history-cursor.ts     (historyCursor store)     *)
(*   src/lib/store/history/max-history-length.ts (maxHistoryLength store)  *)
(*   src/lib/store/history/index.ts              (GridHistory namespace)   *)
(*                                                                         *)
(* The three stores are svelte `writable`s.  `set` on a writable replaces  *)
(* the value and calls every subscriber synchronously, before `set`        *)
(* returns; for a primitive value the subscribers are called only when the *)
(* value changed, for an array always.  What a subscriber can read at the  *)
(* moment it is called is recorded in last.notified.                       *)
(***************************************************************************)
EXTENDS Integers, Sequences, FiniteSets, TLC

VARIABLES
    gridHistory,       \* writable<GridMap[]>      history.ts:94
    historyCursor,     \* writable(0)              history-cursor.ts:70
    maxHistoryLength,  \* writable(20)             max-history-length.ts:12
    last,              \* the most recent call: arguments, state before, outcome
    prev,              \* the call before `last`, kept while navigating (undo/redo)
    stored,            \* every entry ever stored, in order (append-only sessions)
    hash,              \* the URL hash record behind createHashStore (the sink)
    mapSize,           \* writable<MapSizeProfile>, its gridSize  map-size.ts:17
    gs,                \* the most recent mapState / activeTab call and its outcome
    ui,                \* the most recent handler of the editing layer
    anim,              \* selection animation of the main page  +page.svelte:263-270
    chat               \* the chat panel: messages, isLoadingAPI  Chat.svelte:50

sinkVars == <<hash, mapSize, gs, ui>>

pageVars == <<anim, chat>>

vars == <<gridHistory, historyCursor, maxHistoryLength, last, prev, stored,
          hash, mapSize, gs, ui, anim, chat>>

----------------------------------------------------------------------------
(* Bounds of the model *)

MaxLogLen == 4        \* longest Log explored
MaxLenSetting == 4    \* maxHistoryLength is set to 1..MaxLenSetting at run time
MaxStored == 6        \* entries stored in an append-only session
MaxSessionLogLen == 2  \* longest Log in a session that also uses Grid State
MaxTimers == 3         \* interval ids the browser hands out
MaxMessages == 6       \* messages shown in the chat

----------------------------------------------------------------------------
(* Program constants *)

BORDER == 0
EMPTY == 1
WALL == 2
BAT == 3

MAX_GRID_HISTORY_LENGTH == 20

\* GridMap values handed to the history: 1 x 2 grids of tiles.
SampleMaps == { << <<EMPTY, EMPTY>> >>, << <<EMPTY, WALL>> >> }

\* JavaScript `undefined` (no GridMap is the empty array here).
undefined == <<>>

\* A JavaScript number used as a cursor argument: int + frac/2, so that
\* frac = 1 is a non-integer.  The arguments tried are the integers
\* -1 .. MaxLogLen and 1.5.
CursorArgs ==
    [int : -1 .. MaxLogLen, frac : {0}] \cup { [int |-> 1, frac |-> 1] }

NoArg == [int |-> 0, frac |-> 0]

Int0(i) == [int |-> i, frac |-> 0]

----------------------------------------------------------------------------
(* Helpers: lodash / Array.prototype / @toss/assert as the code uses them *)

\* Variant: the integer assertion is missing
IsIntegerUnchecked(n) == TRUE

\* _.isInteger(cursor)
IsInteger(n) == n.frac = 0

\* cursor >= 0
NonNegative(n) == n.int >= 0

\* Array.prototype.slice(start) with one argument
JsSliceFrom(seq, start) ==
    LET len == Len(seq)
        from == IF start < 0
                THEN (IF len + start < 0 THEN 0 ELSE len + start)
                ELSE (IF start > len THEN len ELSE start)
    IN SubSeq(seq, from + 1, len)

\* array[i]: undefined outside the array
JsIndex(seq, i) == IF i + 1 \in DOMAIN seq THEN seq[i + 1] ELSE undefined

\* Variant: slice(0, end - 1), the entry at the cursor is dropped too
JsSliceToExclusive(seq, end) ==
    SubSeq(seq, 1, IF end - 1 > Len(seq) THEN Len(seq) ELSE end - 1)

\* Array.prototype.slice(0, end) for end >= 0
JsSliceTo(seq, end) ==
    SubSeq(seq, 1, IF end > Len(seq) THEN Len(seq) ELSE end)

\* One delivery to a subscriber: the store written and the (Log, Cursor)
\* pair the stores hold at that moment.
Notice(store, h, c) == [store |-> store, history |-> h, cursor |-> c]

\* writable.set on historyCursor: subscribers run only if the number changed.
CursorNotices(h, old, new) ==
    IF new # old THEN << Notice("historyCursor", h, new) >> ELSE << >>

\* Outcome of a call: the stores after it, the returned value, the message
\* of the assertion that failed ("" when none did) and the notices delivered.
Outcome(h, c, ret, err, notified) ==
    [history |-> h, cursor |-> c, ret |-> ret, err |-> err,
     notified |-> notified]

\* assert(cond, msg) threw: nothing after it ran.
Thrown(h, c, msg) == Outcome(h, c, undefined, msg, << >>)

----------------------------------------------------------------------------
(* GridHistory namespace, index.ts.  Each function is an operator from the *)
(* stores' values and the arguments to the Outcome of the call.            *)

\* Variant: the upper bound tested with <= instead of <
CursorInRangeInclusive(n, len) == n.int <= len

\* cursor < getHistoryLength()
CursorInRange(n, len) == n.int < len

\* The three assertions that open setHistoryCursor, loadCheckpoint and
\* appendHistory, in the order the code makes them; "" when all pass.
FailedAssertion(history, n) ==
    IF ~IsInteger(n) THEN "cursor must be an integer"
    ELSE IF ~NonNegative(n) THEN "cursor must be greater than or equal to 0"
    ELSE IF ~CursorInRange(n, Len(history))
         THEN "cursor must be less than the history length"
    ELSE ""

setHistoryCursor(history, cur, n) ==
    LET msg == FailedAssertion(history, n)
    IN IF msg # ""
       THEN Thrown(history, cur, msg)
       ELSE Outcome(history, n.int, undefined, "",
                    CursorNotices(history, cur, n.int))

canUndo(cur) == cur > 0

\* Variant: redo allowed up to the length instead of the last index
canRedoPastEnd(history, cur) == cur < Len(history)

canRedo(history, cur) == cur < Len(history) - 1

\* const newCursor = getHistoryCursor() + 1
RedoTarget(cur) == cur + 1

\* Variant: the decrement is lost
UndoTargetStays(cur) == cur

\* const newCursor = getHistoryCursor() - 1
UndoTarget(cur) == cur - 1

\* setHistoryCursor(newCursor); return get(gridHistory)[newCursor]
\* (an assertion failing inside setHistoryCursor propagates to the caller)
MoveAndRead(history, cur, newCursor) ==
    LET s == setHistoryCursor(history, cur, Int0(newCursor))
    IN IF s.err # "" THEN s
       ELSE [s EXCEPT !.ret = history[newCursor + 1]]

redo(history, cur) ==
    IF canRedo(history, cur)
    THEN MoveAndRead(history, cur, RedoTarget(cur))
    ELSE Outcome(history, cur, undefined, "", << >>)

undo(history, cur) ==
    IF canUndo(cur)
    THEN MoveAndRead(history, cur, UndoTarget(cur))
    ELSE Outcome(history, cur, undefined, "", << >>)

\* if (checkpoint): an array is truthy, undefined is not
Truthy(v) == v # undefined

loadCheckpoint(history, cur, n) ==
    LET msg == FailedAssertion(history, n)
    IN IF msg # ""
       THEN Thrown(history, cur, msg)
       ELSE LET checkpoint == JsIndex(history, n.int)
                truncated == JsSliceTo(history, n.int + 1)
            IN IF Truthy(checkpoint)
               THEN Outcome(truncated, cur, undefined, "",
                            << Notice("gridHistory", truncated, cur) >>)
               ELSE Outcome(history, cur, undefined, "", << >>)

\* Variant: the new state is appended without discarding the redo path
BranchKeepsRedoPath(history, state, cursor) == history \o << state >>

\* Variant: the new state is put in front of the kept entries
BranchPrepends(history, state, cursor) ==
    << state >> \o JsSliceTo(history, cursor + 1)

\* [...history.slice(0, cursor + 1), state]
Branch(history, state, cursor) == JsSliceTo(history, cursor + 1) \o << state >>

\* Variant: the window keeps the oldest entries, slice(0, maxLength)
TrimKeepsOldest(newHistory, maxLength) ==
    IF Len(newHistory) > maxLength
    THEN JsSliceTo(newHistory, maxLength)
    ELSE newHistory

\* Variant: the window is the default length, not the store's current value
TrimAtDefault(newHistory, maxLength) ==
    IF Len(newHistory) > MAX_GRID_HISTORY_LENGTH
    THEN JsSliceFrom(newHistory, -MAX_GRID_HISTORY_LENGTH)
    ELSE newHistory

\* if (newHistory.length > maxLength) newHistory = newHistory.slice(-maxLength)
Trim(newHistory, maxLength) ==
    IF Len(newHistory) > maxLength
    THEN JsSliceFrom(newHistory, -maxLength)
    ELSE newHistory

\* Variant: the cursor is set to the length, one past the last entry
TailCursorPastEnd(newHistory) == Len(newHistory)

\* historyCursor.set(newHistory.length - 1)
TailCursor(newHistory) == Len(newHistory) - 1

appendHistory(history, cur, maxLength, state, n) ==
    LET msg == FailedAssertion(history, n)
    IN IF msg # ""
       THEN Thrown(history, cur, msg)
       ELSE LET newHistory == Trim(Branch(history, state, n.int), maxLength)
                newCursor == TailCursor(newHistory)
            IN Outcome(newHistory, newCursor, undefined, "",
                       << Notice("gridHistory", newHistory, cur) >>
                       \o CursorNotices(newHistory, cur, newCursor))

----------------------------------------------------------------------------
(* Grid State: editor/map-state.ts over the URL hash.  The hash is a record *)
(* of optional strings; a JSON text is the sequence of its characters, a    *)
(* tab name is a sequence of one token.                                     *)
(* createHashStore follows the svelte store contract: set(v) makes v the    *)
(* record, update(f) makes f(record) the record.                            *)

\* Grid shapes [rows, cols] the mapSize store is given.
SampleShapes == { <<1, 2>>, <<2, 1>> }

\* A key that is not in the hash (value undefined).
NoEntry == << "undefined" >>

TileChars == { "0", "1", "2", "3" }

TileOfChar(ch) ==
    CASE ch = "0" -> BORDER [] ch = "1" -> EMPTY [] ch = "2" -> WALL
      [] OTHER -> BAT

\* Variant: a tile is written as 0 or 1 (free or not), losing its kind
CharOfTileAsFlag(t) == IF t = BORDER THEN "0" ELSE "1"

CharOfTile(t) ==
    CASE t = BORDER -> "0" [] t = EMPTY -> "1" [] t = WALL -> "2"
      [] OTHER -> "3"

\* Array.prototype.join(",") of already serialized items
RECURSIVE JoinComma(_)
JoinComma(items) ==
    IF Len(items) = 0 THEN << >>
    ELSE IF Len(items) = 1 THEN items[1]
    ELSE items[1] \o << "," >> \o JoinComma(Tail(items))

\* JSON.stringify of a GridMap: [[1,2],[1,1]] without spaces
StringifyRow(row) ==
    << "[" >> \o JoinComma([i \in 1 .. Len(row) |-> << CharOfTile(row[i]) >>])
        \o << "]" >>

JsonStringify(map) ==
    << "[" >> \o JoinComma([i \in 1 .. Len(map) |-> StringifyRow(map[i])])
        \o << "]" >>

\* Result of a parse step: ok, the value read, the position after it.
Parsed(value, next) == [ok |-> TRUE, value |-> value, next |-> next]

ParseError == [ok |-> FALSE, value |-> << >>, next |-> 0]

\* tile ("," tile)* "]" from position i
RECURSIVE ParseTiles(_, _, _)
ParseTiles(t, i, acc) ==
    IF i + 1 > Len(t) \/ t[i] \notin TileChars THEN ParseError
    ELSE LET acc2 == Append(acc, TileOfChar(t[i]))
         IN IF t[i + 1] = "]" THEN Parsed(acc2, i + 2)
            ELSE IF t[i + 1] = "," THEN ParseTiles(t, i + 2, acc2)
            ELSE ParseError

\* "[" tiles "]" or "[]" at position i
ParseRow(t, i) ==
    IF i + 1 > Len(t) \/ t[i] # "[" THEN ParseError
    ELSE IF t[i + 1] = "]" THEN Parsed(<< >>, i + 2)
    ELSE ParseTiles(t, i + 1, << >>)

\* row ("," row)* "]" from position i
RECURSIVE ParseRows(_, _, _)
ParseRows(t, i, acc) ==
    LET row == ParseRow(t, i)
    IN IF ~row.ok \/ row.next > Len(t) THEN ParseError
       ELSE LET acc2 == Append(acc, row.value)
            IN IF t[row.next] = "]" THEN Parsed(acc2, row.next + 1)
               ELSE IF t[row.next] = "," THEN ParseRows(t, row.next + 1, acc2)
               ELSE ParseError

NullText == << "n", "u", "l", "l" >>

\* JSON.parse on the texts the model meets: an array of arrays of tiles,
\* [] or null; any other text is a SyntaxError.  kind tells what was read.
JsonParse(t) ==
    IF t = NullText
    THEN [ok |-> TRUE, kind |-> "null", value |-> << >>]
    ELSE IF Len(t) < 2 \/ t[1] # "[" THEN
         [ok |-> FALSE, kind |-> "error", value |-> << >>]
    ELSE LET r == IF t[2] = "]" THEN Parsed(<< >>, 3)
                  ELSE ParseRows(t, 2, << >>)
         IN IF r.ok /\ r.next = Len(t) + 1
            THEN [ok |-> TRUE, kind |-> "grid", value |-> r.value]
            ELSE [ok |-> FALSE, kind |-> "error", value |-> << >>]

\* Variant: the default map is built once, for the initial grid shape
defaultMapStateOfInitialShape(gridSize) ==
    [r \in 1 .. 1 |-> [c \in 1 .. 2 |-> EMPTY]]

\* defaultMapState: rows x cols tiles, all EMPTY
defaultMapState(gridSize) ==
    [r \in 1 .. gridSize[1] |-> [c \in 1 .. gridSize[2] |-> EMPTY]]

\* value?.map is truthy: present and not the empty string
HasMapText(h) == h.map # NoEntry /\ h.map # << >>

\* Variant: JSON.parse without the try/catch, the SyntaxError escapes
readMapUncaught(h, gridSize) ==
    IF HasMapText(h)
    THEN LET p == JsonParse(h.map)
         IN [map |-> p.value, kind |-> p.kind, logged |-> FALSE,
             threw |-> ~p.ok]
    ELSE [map |-> defaultMapState(gridSize), kind |-> "grid",
          logged |-> FALSE, threw |-> FALSE]

\* The read side shared by subscribe (map-state.ts:78-90) and update
\* (map-state.ts:104-114): the map handed on, what kind of value it is,
\* whether console.error was called, whether an exception escaped.
readMap(h, gridSize) ==
    IF HasMapText(h)
    THEN LET p == JsonParse(h.map)
         IN IF p.ok
            THEN [map |-> p.value, kind |-> p.kind, logged |-> FALSE,
                  threw |-> FALSE]
            ELSE [map |-> defaultMapState(gridSize), kind |-> "grid",
                  logged |-> TRUE, threw |-> FALSE]
    ELSE [map |-> defaultMapState(gridSize), kind |-> "grid",
          logged |-> FALSE, threw |-> FALSE]

\* Variant: the record is merged, { ...current, map: text }
hashWithMapMerged(h, text) == [h EXCEPT !.map = text]

\* The record { map: text } given to internalHashStore.set and returned by
\* the update callback: it has no other key.
hashWithMap(h, text) == [map |-> text, activeTab |-> NoEntry]

\* mapState.set(gridMapValue): the new hash record
mapStateSet(h, gridMapValue) == hashWithMap(h, JsonStringify(gridMapValue))

\* An updater: the one of handleCellInteraction, painting tile at (r, c)
\* of a copy of the map (0-based indices); applied to a value that is not
\* an array, currentMap.map throws a TypeError.
Updater(r, c, tile) == [r |-> r, c |-> c, tile |-> tile]

ApplyUpdater(fn, currentMap) ==
    IF /\ fn.r >= 0 /\ fn.r < Len(currentMap)
       /\ fn.c >= 0 /\ fn.c < Len(currentMap[1])
    THEN [currentMap EXCEPT ![fn.r + 1][fn.c + 1] = fn.tile]
    ELSE currentMap

\* Variant: a parse failure aborts the update, the hash record is returned
mapStateUpdateAborting(h, gridSize, fn) ==
    LET cur == readMap(h, gridSize)
    IN IF cur.kind # "grid"
       THEN [hash |-> h, fed |-> cur.map, result |-> << >>, threw |-> TRUE,
             logged |-> cur.logged]
       ELSE IF cur.logged
       THEN [hash |-> h, fed |-> cur.map, result |-> << >>, threw |-> FALSE,
             logged |-> TRUE]
       ELSE LET newMap == ApplyUpdater(fn, cur.map)
            IN [hash |-> hashWithMap(h, JsonStringify(newMap)),
                fed |-> cur.map, result |-> newMap, threw |-> FALSE,
                logged |-> cur.logged]

\* mapState.update(updater): the new hash record, the map fed to the
\* updater, its result, and whether the updater threw (nothing is stored
\* then).  JSON.stringify cannot fail on a GridMap.
mapStateUpdate(h, gridSize, fn) ==
    LET cur == readMap(h, gridSize)
    IN IF cur.kind # "grid"
       THEN [hash |-> h, fed |-> cur.map, result |-> << >>, threw |-> TRUE,
             logged |-> cur.logged]
       ELSE LET newMap == ApplyUpdater(fn, cur.map)
            IN [hash |-> hashWithMap(h, JsonStringify(newMap)),
                fed |-> cur.map, result |-> newMap, threw |-> FALSE,
                logged |-> cur.logged]

EditTab == << "edit" >>

ChatTab == << "chat" >>

\* activeTab.set(tabValue), editor/active-tab.ts: { ...current, activeTab }
activeTabSet(h, tabValue) == [h EXCEPT !.activeTab = tabValue]

\* Texts that JSON.parse rejects
UnparseableTexts ==
    { << "n", "o", "t", "-", "j", "s", "o", "n" >>, << "[", "[", "1", "]" >> }

\* Hash records a URL can carry into the application: the map entry absent,
\* empty, unparseable, null or a serialized map; the tab absent, a known
\* tab or an unknown one.
UrlHashes ==
    [map : {NoEntry, << >>, NullText} \cup UnparseableTexts
               \cup { JsonStringify(m) : m \in SampleMaps },
     activeTab : {NoEntry, EditTab, ChatTab, << "view" >>}]

NoFn == Updater(-1, -1, EMPTY)

NoRead == [map |-> << >>, kind |-> "none", logged |-> FALSE, threw |-> FALSE]

\* Record of a Grid State call: the hash before, the argument, the map read
\* (get) or fed to the updater (update), the updater's result, and what the
\* subscribers of mapState were handed when the hash changed.
GsCall(op, arg, fn, pre, read, result, threw, delivered) ==
    [op |-> op, arg |-> arg, fn |-> fn, pre |-> pre, read |-> read,
     result |-> result, threw |-> threw, delivered |-> delivered]

NoGs ==
    GsCall("none", << >>, NoFn, [map |-> NoEntry, activeTab |-> NoEntry],
           NoRead, << >>, FALSE, NoRead)

\* Record of a handler of the editing layer: whether it went through, the
\* map it wrote, and the History Cursor when it started.
UiCall(op, accepted, map) ==
    [op |-> op, accepted |-> accepted, map |-> map, cursor |-> historyCursor]

NoUi == [op |-> "none", accepted |-> FALSE, map |-> << >>, cursor |-> 0]

InitialShape == << 1, 2 >>

\* The sink before the application has written anything: an empty hash.
SinkInit ==
    /\ hash = [map |-> NoEntry, activeTab |-> NoEntry]
    /\ mapSize = InitialShape
    /\ gs = NoGs
    /\ ui = NoUi

historyVars ==
    <<gridHistory, historyCursor, maxHistoryLength, last, prev, stored>>

\* get(mapState): subscribe, take the value handed over, unsubscribe
MapStateGet ==
    /\ gs' = GsCall("get", << >>, NoFn, hash, readMap(hash, mapSize), << >>,
                    readMap(hash, mapSize).threw, NoRead)
    /\ UNCHANGED <<hash, mapSize, ui>>
    /\ UNCHANGED historyVars
    /\ UNCHANGED pageVars

MapStateSet(gridMapValue) ==
    LET h == mapStateSet(hash, gridMapValue)
    IN /\ hash' = h
       /\ gs' = GsCall("set", gridMapValue, NoFn, hash, NoRead, << >>, FALSE,
                       readMap(h, mapSize))
       /\ UNCHANGED <<mapSize, ui>>
       /\ UNCHANGED historyVars
       /\ UNCHANGED pageVars

MapStateUpdate(fn) ==
    LET u == mapStateUpdate(hash, mapSize, fn)
    IN /\ hash' = u.hash
       /\ gs' = GsCall("update", << >>, fn, hash,
                       [readMap(hash, mapSize) EXCEPT !.map = u.fed],
                       u.result, u.threw,
                       IF u.threw THEN NoRead ELSE readMap(u.hash, mapSize))
       /\ UNCHANGED <<mapSize, ui>>
       /\ UNCHANGED historyVars
       /\ UNCHANGED pageVars

ActiveTabSet(tabValue) ==
    /\ hash' = activeTabSet(hash, tabValue)
    /\ gs' = GsCall("setTab", tabValue, NoFn, hash, NoRead, << >>, FALSE,
                    readMap(activeTabSet(hash, tabValue), mapSize))
    /\ UNCHANGED <<mapSize, ui>>
    /\ UNCHANGED historyVars
    /\ UNCHANGED pageVars

\* mapSize.set: the configured grid shape changes
SetMapSize(shape) ==
    /\ shape # mapSize
    /\ mapSize' = shape
    /\ gs' = GsCall("setMapSize", << >>, NoFn, hash, NoRead, << >>, FALSE,
                    NoRead)
    /\ UNCHANGED <<hash, ui>>
    /\ UNCHANGED historyVars
    /\ UNCHANGED pageVars

\* The URL hash changes outside the stores (a shared link, an edit of the
\* address bar, browser navigation): the hash store takes the new record
\* and notifies its subscribers.
HashChange(h) ==
    /\ h # hash
    /\ hash' = h
    /\ gs' = GsCall("hashchange", << >>, NoFn, hash, NoRead, << >>, FALSE,
                    readMap(h, mapSize))
    /\ UNCHANGED <<mapSize, ui>>
    /\ UNCHANGED historyVars
    /\ UNCHANGED pageVars

PaintTiles == { EMPTY, WALL }

Updaters == { Updater(r, c, t) : r \in 0 .. 1, c \in 0 .. 1, t \in PaintTiles }

----------------------------------------------------------------------------
(* Editing layer: the handlers of Grid.svelte, Toolbar.svelte and          *)
(* +page.svelte that change the map, as the components wire them.          *)

\* $activeTab as editor/active-tab.ts hands it to a subscriber
DEFAULT_ACTIVE_TAB == ChatTab

currentTab(h) ==
    IF h.activeTab = EditTab \/ h.activeTab = ChatTab
    THEN h.activeTab ELSE DEFAULT_ACTIVE_TAB

\* $selectedTile: no tile, or the name of one
SelectedTiles == { << >> } \cup { << t >> : t \in PaintTiles }

\* completeGrid of Grid.svelte: the map, with a border around it on request
gridRows(map, showBorders) == Len(map) + (IF showBorders THEN 2 ELSE 0)

gridCols(map, showBorders) ==
    IF Len(map) = 0 THEN 0
    ELSE Len(map[1]) + (IF showBorders THEN 2 ELSE 0)

\* Variant: only the top and left borders are recognised
OnBorderTopLeft(map, showBorders, gridRowIndex, gridColIndex) ==
    /\ showBorders
    /\ (gridRowIndex = 0 \/ gridColIndex = 0)

OnBorder(map, showBorders, gridRowIndex, gridColIndex) ==
    /\ showBorders
    /\ \/ gridRowIndex = 0
       \/ gridRowIndex = gridRows(map, showBorders) - 1
       \/ gridColIndex = 0
       \/ gridColIndex = gridCols(map, showBorders) - 1

\* Grid.svelte handleCellInteraction: paints the selected tile on the cell
\* through mapState.update, or returns early.
HandleCellInteraction(editMode, showBorders, selected, gridRowIndex, gridColIndex) ==
    LET shown == readMap(hash, mapSize)
        off == IF showBorders THEN 1 ELSE 0
        fn == Updater(gridRowIndex - off, gridColIndex - off, selected[1])
        u == mapStateUpdate(hash, mapSize, fn)
        goes == /\ editMode
                /\ selected # << >>
                /\ currentTab(hash) = EditTab
                /\ ~OnBorder(shown.map, showBorders, gridRowIndex,
                             gridColIndex)
    IN \* a cell of the rendered grid is clicked or dragged over
       /\ shown.kind = "grid"
       /\ gridRowIndex \in 0 .. gridRows(shown.map, showBorders) - 1
       /\ gridColIndex \in 0 .. gridCols(shown.map, showBorders) - 1
       /\ IF goes
          THEN /\ hash' = u.hash
               /\ gs' = GsCall("update", << >>, fn, hash,
                               [shown EXCEPT !.map = u.fed], u.result,
                               u.threw, readMap(u.hash, mapSize))
               /\ ui' = UiCall("paint", TRUE, u.result)
          ELSE /\ ui' = UiCall("paint", FALSE, << >>)
               /\ UNCHANGED <<hash, gs>>
       /\ UNCHANGED mapSize
       /\ UNCHANGED historyVars
       /\ UNCHANGED pageVars

\* The handlers that replace the map: mapState.set(newMap)
ReplaceMap(op, newMap) ==
    LET h == mapStateSet(hash, newMap)
    IN /\ hash' = h
       /\ gs' = GsCall("set", newMap, NoFn, hash, NoRead, << >>, FALSE,
                       readMap(h, mapSize))
       /\ ui' = UiCall(op, TRUE, newMap)
       /\ UNCHANGED mapSize
       /\ UNCHANGED historyVars
       /\ UNCHANGED pageVars

\* generateRandomMap(gridSize): any rows x cols map
RandomMaps(gridSize) ==
    [1 .. gridSize[1] -> [1 .. gridSize[2] -> PaintTiles]]

\* Toolbar.svelte handleGenerateRandomMap
HandleGenerateRandomMap(randomMap) == ReplaceMap("random", randomMap)

\* Toolbar.svelte, the reset button: mapState.set($defaultMapState)
HandleReset == ReplaceMap("reset", defaultMapState(mapSize))

\* +page.svelte handleCandidateClick: mapState.set(candidate.map)
HandleCandidateClick(candidateMap) == ReplaceMap("candidate", candidateMap)

\* history.back() / history.forward(): the browser moves to another entry of
\* its session history, any hash it holds, or has none to move to.  The
\* handler reports success when the URL changed.
BrowserNavigate(op, h) ==
    /\ hash' = h
    /\ gs' = IF h = hash THEN gs
             ELSE GsCall("hashchange", << >>, NoFn, hash, NoRead, << >>,
                         FALSE, readMap(h, mapSize))
    /\ ui' = UiCall(op, h # hash, << >>)
    /\ UNCHANGED mapSize
    /\ UNCHANGED historyVars
    /\ UNCHANGED pageVars

\* Toolbar.svelte (History) handleUndo
HandleUndo(h) == BrowserNavigate("handleUndo", h)

\* Toolbar.svelte (History) handleRedo
HandleRedo(h) == BrowserNavigate("handleRedo", h)

EditOps == {"paint", "random", "reset", "candidate"}

UndoRedoOps == {"handleUndo", "handleRedo"}


----------------------------------------------------------------------------
(* Main page: the selection animation of +page.svelte.  A timer is an id   *)
(* in the browser's list of active intervals; animationTimer holds the id  *)
(* the page remembers, 0 for null.                                         *)

NoCandidate == [id |-> "none", map |-> << >>, states |-> << >>]

\* Map candidates: two with an animation of several frames, one with a
\* single state
Candidates ==
    { [id |-> "A", map |-> << << WALL, WALL >> >>,
       states |-> << << << EMPTY, WALL >> >>, << << WALL, WALL >> >> >>],
      [id |-> "B", map |-> << << BAT, EMPTY >> >>,
       states |-> << << << EMPTY, BAT >> >>, << << BAT, BAT >> >>,
                     << << BAT, EMPTY >> >> >>],
      [id |-> "C", map |-> << << EMPTY, EMPTY >> >>,
       states |-> << << << EMPTY, EMPTY >> >> >>] }

AnimInit ==
    [timer |-> 0, timers |-> {}, playing |-> FALSE, states |-> << >>,
     selected |-> NoCandidate, frame |-> 0, clicked |-> NoCandidate,
     interrupted |-> "none"]

\* if (animationTimer) { clearInterval(animationTimer); animationTimer = null }
clearAnimationTimer(a) ==
    [a EXCEPT !.timers = a.timers \ {a.timer}, !.timer = 0]

\* setInterval: the browser hands out an id that no active timer has
FreshTimer(timers) ==
    CHOOSE id \in 1 .. MaxTimers :
        /\ id \notin timers
        /\ \A other \in 1 .. MaxTimers : other \notin timers => id <= other

\* Variant: the state is reset but the interval is not cleared
stopSelectionAnimationLeavingTimer(a) ==
    [a EXCEPT !.playing = FALSE, !.timer = 0, !.frame = 0, !.states = << >>,
              !.selected = NoCandidate]

stopSelectionAnimation(a) ==
    [clearAnimationTimer(a) EXCEPT !.playing = FALSE, !.frame = 0,
                                   !.states = << >>,
                                   !.selected = NoCandidate]

\* setAnimationFrame(frameIndex): the frame is written to mapState
setAnimationFrame(a, h, frameIndex) ==
    IF frameIndex >= 0 /\ frameIndex < Len(a.states)
    THEN [anim |-> [a EXCEPT !.frame = frameIndex],
          hash |-> mapStateSet(h, a.states[frameIndex + 1])]
    ELSE [anim |-> a, hash |-> h]

startSelectionAnimation(a) ==
    IF Len(a.states) <= 1 THEN a
    ELSE LET cleared == clearAnimationTimer([a EXCEPT !.playing = TRUE])
             id == FreshTimer(cleared.timers)
         IN [cleared EXCEPT !.timer = id, !.timers = cleared.timers \cup {id}]

\* A write of the page to mapState, as the Grid State call record
PageWrite(h) ==
    GsCall("set", JsonParse(h.map).value, NoFn, hash, NoRead, << >>, FALSE,
           readMap(h, mapSize))

\* handleCandidateClick(candidate)
CandidateClick(candidate, selectionAnimationMode) ==
    LET stopped == stopSelectionAnimation(anim)
        \* clicked and interrupted record the click: the candidate, and the
        \* one whose animation was playing at that moment
        chosen == [stopped EXCEPT !.selected = candidate,
                                  !.clicked = candidate,
                                  !.interrupted = IF anim.playing
                                                  THEN anim.selected.id
                                                  ELSE "none"]
        first == setAnimationFrame(
                     [chosen EXCEPT !.states = candidate.states, !.frame = 0],
                     hash, 0)
        h == IF selectionAnimationMode /\ Len(candidate.states) > 1
             THEN first.hash ELSE mapStateSet(hash, candidate.map)
    IN /\ stopped.timers # 1 .. MaxTimers
       /\ anim' = IF selectionAnimationMode /\ Len(candidate.states) > 1
                  THEN startSelectionAnimation(first.anim) ELSE chosen
       /\ hash' = h
       /\ gs' = PageWrite(h)
       /\ ui' = UiCall("candidate", TRUE, JsonParse(h.map).value)
       /\ UNCHANGED <<mapSize, chat>>
       /\ UNCHANGED historyVars

\* The callback of the interval fires
AnimationTick(id) ==
    /\ id \in anim.timers
    /\ IF ~anim.playing
       THEN /\ anim' = clearAnimationTimer(anim)
            /\ ui' = UiCall("tick", FALSE, << >>)
            /\ UNCHANGED <<hash, gs>>
       ELSE IF anim.frame + 1 >= Len(anim.states)
       THEN LET lastFrame == setAnimationFrame(clearAnimationTimer(anim),
                                               hash, Len(anim.states) - 1)
                ended == [lastFrame.anim EXCEPT !.playing = FALSE]
                \* handleSelectionAnimationComplete
                h == IF ended.selected # NoCandidate
                     THEN mapStateSet(lastFrame.hash, ended.selected.map)
                     ELSE lastFrame.hash
            IN /\ anim' = IF ended.selected # NoCandidate
                          THEN stopSelectionAnimation(ended) ELSE ended
               /\ hash' = h
               /\ gs' = PageWrite(h)
               /\ ui' = UiCall("complete", TRUE, JsonParse(h.map).value)
       ELSE LET shown == setAnimationFrame(anim, hash, anim.frame + 1)
            IN /\ anim' = shown.anim
               /\ hash' = shown.hash
               /\ gs' = PageWrite(shown.hash)
               /\ ui' = UiCall("frame", TRUE, JsonParse(shown.hash.map).value)
    /\ UNCHANGED <<mapSize, chat>>
    /\ UNCHANGED historyVars

\* onDestroy: stopSelectionAnimation(true)
PageDestroy ==
    /\ anim' = stopSelectionAnimation(anim)
    /\ ui' = UiCall("destroy", FALSE, << >>)
    /\ UNCHANGED <<hash, mapSize, gs, chat>>
    /\ UNCHANGED historyVars

----------------------------------------------------------------------------
(* Chat panel: Chat.svelte handleSendMessage.  A text is the sequence of   *)
(* its characters.  inFlight counts the requestInference calls that have   *)
(* not settled.                                                            *)

\* String.prototype.trim
RECURSIVE TrimStart(_)
TrimStart(text) ==
    IF text # << >> /\ Head(text) = " " THEN TrimStart(Tail(text)) ELSE text

RECURSIVE TrimEnd(_)
TrimEnd(text) ==
    IF text # << >> /\ text[Len(text)] = " "
    THEN TrimEnd(SubSeq(text, 1, Len(text) - 1)) ELSE text

StringTrim(text) == TrimEnd(TrimStart(text))

\* What the user has typed when Send is pressed
MessageInputs == { << >>, << " ", " " >>, << " ", "a", " " >>, << "b" >> }

\* How a request settles: a response with states, one without, a failure
\* (HTTP error, timeout, invalid response, bad VITE_API_BASE)
Settlements == {"states", "empty", "failed"}

ChatInit ==
    [isLoadingAPI |-> FALSE, inFlight |-> 0, messages |-> << >>,
     candidatesSet |-> FALSE, last |-> "none"]

Message(isUser, text) == [isUser |-> isUser, text |-> text]

\* Variant: the guard does not look at isLoadingAPI
canSendWhileLoading(trimmedMessage, disabled, isLoadingAPI) ==
    trimmedMessage # << >> /\ ~disabled

\* if (trimmedMessage && !disabled && !isLoadingAPI)
canSend(trimmedMessage, disabled, isLoadingAPI) ==
    trimmedMessage # << >> /\ ~disabled /\ ~isLoadingAPI

\* handleSendMessage up to `await requestInference(requestPayload)`
HandleSendMessage(messageInput, disabled) ==
    LET trimmedMessage == StringTrim(messageInput)
    IN /\ Len(chat.messages) + 2 <= MaxMessages
       /\ chat' = IF canSend(trimmedMessage, disabled, chat.isLoadingAPI)
                  THEN [chat EXCEPT
                          !.messages = Append(@, Message(TRUE, trimmedMessage)),
                          !.isLoadingAPI = TRUE,
                          !.inFlight = @ + 1,
                          !.last = "sent"]
                  ELSE [chat EXCEPT !.last = "ignored"]
       /\ UNCHANGED <<anim, sinkVars>>
       /\ UNCHANGED historyVars

\* handleSendMessage from the await on: the request settles, the reply or
\* the error is shown, `finally` clears isLoadingAPI
RequestSettles(how) ==
    /\ chat.inFlight > 0
    /\ chat' = [chat EXCEPT
                  !.messages = Append(@, Message(FALSE,
                                  IF how = "failed" THEN << "E" >>
                                  ELSE << "A" >>)),
                  !.candidatesSet = IF how = "failed" THEN @
                                    ELSE how = "states",
                  !.isLoadingAPI = FALSE,
                  !.inFlight = @ - 1,
                  !.last = "settled"]
    /\ UNCHANGED <<anim, sinkVars>>
    /\ UNCHANGED historyVars

PageInit ==
    /\ anim = AnimInit
    /\ chat = ChatInit

----------------------------------------------------------------------------
(* State machine *)

Stores == [history |-> gridHistory, cursor |-> historyCursor,
           max |-> maxHistoryLength]

Call(op, n, state, pre, out) ==
    [op |-> op, n |-> n, state |-> state, pre |-> pre, ret |-> out.ret,
     err |-> out.err, notified |-> out.notified]

NoCall ==
    Call("none", NoArg, undefined,
         [history |-> << >>, cursor |-> 0, max |-> MAX_GRID_HISTORY_LENGTH],
         Outcome(<< >>, 0, undefined, "", << >>))

Navigation == {"undo", "redo"}

\* Variant: the controller also persists the entry it returns
CommitPersisting(op, n, state, out) ==
    /\ gridHistory' = out.history
    /\ historyCursor' = out.cursor
    /\ last' = Call(op, n, state, Stores, out)
    /\ prev' = IF op \in Navigation /\ last.op \in Navigation
               THEN last ELSE NoCall
    /\ hash' = IF Truthy(out.ret) THEN mapStateSet(hash, out.ret) ELSE hash
    /\ UNCHANGED <<maxHistoryLength, stored>>
    /\ UNCHANGED <<mapSize, gs, ui>>
    /\ UNCHANGED pageVars

\* The stores take the outcome of a GridHistory call; the call is recorded.
Commit(op, n, state, out) ==
    /\ gridHistory' = out.history
    /\ historyCursor' = out.cursor
    /\ last' = Call(op, n, state, Stores, out)
    /\ prev' = IF op \in Navigation /\ last.op \in Navigation
               THEN last ELSE NoCall
    /\ UNCHANGED <<maxHistoryLength, stored>>
    /\ UNCHANGED sinkVars
    /\ UNCHANGED pageVars

Init ==
    /\ gridHistory = << >>
    /\ historyCursor = 0
    /\ maxHistoryLength = MAX_GRID_HISTORY_LENGTH
    /\ last = NoCall
    /\ prev = NoCall
    /\ stored = << >>
    /\ SinkInit
    /\ PageInit

\* The Log is seeded with one entry by a direct write to the exported
\* gridHistory store (the controller cannot fill an empty Log itself).
SeedHistory(state) ==
    /\ gridHistory = << >>
    /\ gridHistory' = << state >>
    /\ last' = Call("seed", NoArg, state, Stores,
                    Outcome(<< state >>, historyCursor, undefined, "",
                            << Notice("gridHistory", << state >>,
                                      historyCursor) >>))
    /\ prev' = NoCall
    /\ UNCHANGED <<historyCursor, maxHistoryLength, stored>>
    /\ UNCHANGED sinkVars
    /\ UNCHANGED pageVars

\* maxHistoryLength.set(m), a positive value chosen at run time
SetMaxHistoryLength(m) ==
    /\ m # maxHistoryLength
    /\ maxHistoryLength' = m
    /\ last' = Call("setMax", Int0(m), undefined, Stores,
                    Outcome(gridHistory, historyCursor, undefined, "", << >>))
    /\ prev' = NoCall
    /\ UNCHANGED <<gridHistory, historyCursor, stored>>
    /\ UNCHANGED sinkVars
    /\ UNCHANGED pageVars

SetHistoryCursor(n) ==
    Commit("setHistoryCursor", n, undefined,
           setHistoryCursor(gridHistory, historyCursor, n))

Undo == Commit("undo", NoArg, undefined, undo(gridHistory, historyCursor))

Redo == Commit("redo", NoArg, undefined, redo(gridHistory, historyCursor))

LoadCheckpoint(n) ==
    Commit("loadCheckpoint", n, undefined,
           loadCheckpoint(gridHistory, historyCursor, n))

AppendHistory(state, n) ==
    LET out == appendHistory(gridHistory, historyCursor, maxHistoryLength,
                             state, n)
    IN /\ Len(out.history) <= MaxLogLen
       /\ Commit("appendHistory", n, state, out)

Next ==
    \/ \E state \in SampleMaps : SeedHistory(state)
    \/ \E m \in 1 .. MaxLenSetting : SetMaxHistoryLength(m)
    \/ \E n \in CursorArgs : SetHistoryCursor(n)
    \/ Undo
    \/ Redo
    \/ \E n \in CursorArgs : LoadCheckpoint(n)
    \/ \E state \in SampleMaps, n \in CursorArgs : AppendHistory(state, n)

Spec == Init /\ [][Next]_vars

----------------------------------------------------------------------------
(* Append-only session: the Log is seeded with one entry, maxHistoryLength *)
(* is fixed, and every edit is recorded with                               *)
(*   GridHistory.appendHistory(newState, GridHistory.getHistoryCursor())   *)

InitAppendOnly ==
    /\ \E d0 \in SampleMaps :
          /\ gridHistory = << d0 >>
          /\ stored = << d0 >>
    /\ historyCursor = 0
    /\ maxHistoryLength \in 1 .. MaxLenSetting
    /\ last = NoCall
    /\ prev = NoCall
    /\ SinkInit
    /\ PageInit

AppendAtCursor(state) ==
    LET out == appendHistory(gridHistory, historyCursor, maxHistoryLength,
                             state, Int0(historyCursor))
    IN /\ Len(stored) < MaxStored
       /\ gridHistory' = out.history
       /\ historyCursor' = out.cursor
       /\ last' = Call("appendHistory", Int0(historyCursor), state, Stores, out)
       /\ stored' = IF out.err = "" THEN Append(stored, state) ELSE stored
       /\ UNCHANGED <<maxHistoryLength, prev>>
       /\ UNCHANGED sinkVars
       /\ UNCHANGED pageVars

NextAppendOnly == \E state \in SampleMaps : AppendAtCursor(state)

SpecAppendOnly == InitAppendOnly /\ [][NextAppendOnly]_vars

----------------------------------------------------------------------------
(* The controller alone: the stores as constructed, and no write to the    *)
(* gridHistory store other than the controller's own.                      *)

NextUnseeded ==
    \/ \E m \in 1 .. MaxLenSetting : SetMaxHistoryLength(m)
    \/ \E n \in CursorArgs : SetHistoryCursor(n)
    \/ Undo
    \/ Redo
    \/ \E n \in CursorArgs : LoadCheckpoint(n)
    \/ \E state \in SampleMaps, n \in CursorArgs : AppendHistory(state, n)

SpecUnseeded == Init /\ [][NextUnseeded]_vars

----------------------------------------------------------------------------
(* Grid State alone: the application opened on any URL hash *)

InitGridState ==
    /\ gridHistory = << >>
    /\ historyCursor = 0
    /\ maxHistoryLength = MAX_GRID_HISTORY_LENGTH
    /\ last = NoCall
    /\ prev = NoCall
    /\ stored = << >>
    /\ hash \in UrlHashes
    /\ mapSize \in SampleShapes
    /\ gs = NoGs
    /\ ui = NoUi
    /\ PageInit

NextGridState ==
    \/ MapStateGet
    \/ \E m \in SampleMaps : MapStateSet(m)
    \/ \E fn \in Updaters : MapStateUpdate(fn)
    \/ \E t \in {EditTab, ChatTab} : ActiveTabSet(t)
    \/ \E shape \in SampleShapes : SetMapSize(shape)
    \/ \E h \in UrlHashes : HashChange(h)

SpecGridState == InitGridState /\ [][NextGridState]_vars

----------------------------------------------------------------------------
(* Writing and reading back: any map over the tileset, of a sample shape   *)
(* or with no rows or no tiles, is set and then read.                      *)

Tiles == { BORDER, EMPTY, WALL, BAT }

RoundTripMaps ==
    { << >>, << << >> >> } \cup
    UNION { [1 .. shape[1] -> [1 .. shape[2] -> Tiles]] :
                shape \in SampleShapes }

NextRoundTrip ==
    \/ \E m \in RoundTripMaps : MapStateSet(m)
    \/ MapStateGet

SpecRoundTrip == Init /\ [][NextRoundTrip]_vars

----------------------------------------------------------------------------
(* The main page: candidates are clicked with and without the selection    *)
(* animation while the timer fires; the toolbar's reset button stays       *)
(* usable throughout.                                                      *)

NextAnimation ==
    \/ \E candidate \in Candidates, selectionAnimationMode \in BOOLEAN :
          CandidateClick(candidate, selectionAnimationMode)
    \/ \E id \in 1 .. MaxTimers : AnimationTick(id)
    \/ PageDestroy
    \/ HandleReset

SpecAnimation == Init /\ [][NextAnimation]_vars

----------------------------------------------------------------------------
(* The chat panel: Send is pressed at any moment, requests settle *)

NextChat ==
    \/ \E messageInput \in MessageInputs, disabled \in BOOLEAN :
          HandleSendMessage(messageInput, disabled)
    \/ \E how \in Settlements : RequestSettles(how)

SpecChat == Init /\ [][NextChat]_vars

----------------------------------------------------------------------------
(* A session that uses both layers: the controller's operations and the    *)
(* Grid State operations, interleaved in any order.                        *)

SessionAppend(state, n) ==
    /\ Len(gridHistory) < MaxSessionLogLen
    /\ AppendHistory(state, n)

HistoryOp ==
    \/ \E n \in CursorArgs : SetHistoryCursor(n)
    \/ Undo
    \/ Redo
    \/ \E n \in CursorArgs : LoadCheckpoint(n)
    \/ \E state \in SampleMaps, n \in CursorArgs : SessionAppend(state, n)

GridStateOp ==
    \/ MapStateGet
    \/ \E m \in SampleMaps : MapStateSet(m)
    \/ \E fn \in Updaters : MapStateUpdate(fn)

NextSession ==
    \/ \E state \in SampleMaps : SeedHistory(state)
    \/ HistoryOp
    \/ GridStateOp

SpecSession == Init /\ [][NextSession]_vars

----------------------------------------------------------------------------
(* The editor as the components wire it: every handler that changes the    *)
(* map or the tab, on the stores as constructed.                           *)

\* Cell indices covering the inner cells and both borders of a bordered
\* grid with one row or one column
CellIndices == 0 .. 2

\* Hashes the browser's session history is taken to hold
SessionHashes ==
    [map : {NoEntry, << "[", "[", "1", "]" >>}
               \cup { JsonStringify(m) : m \in SampleMaps },
     activeTab : {NoEntry, EditTab}]

NextEditor ==
    \/ \E editMode \in BOOLEAN, showBorders \in BOOLEAN,
          selected \in SelectedTiles, r \in CellIndices, c \in CellIndices :
          HandleCellInteraction(editMode, showBorders, selected, r, c)
    \/ \E randomMap \in RandomMaps(mapSize) :
          HandleGenerateRandomMap(randomMap)
    \/ HandleReset
    \/ \E candidateMap \in SampleMaps : HandleCandidateClick(candidateMap)
    \/ \E h \in SessionHashes \cup {hash} : HandleUndo(h)
    \/ \E h \in SessionHashes \cup {hash} : HandleRedo(h)
    \/ \E t \in {EditTab, ChatTab} : ActiveTabSet(t)
    \/ \E shape \in SampleShapes : SetMapSize(shape)

SpecEditor == Init /\ [][NextEditor]_vars

----------------------------------------------------------------------------
(* Painting: cells of the shown grid are clicked in every mode, with the   *)
(* tab switched, candidates chosen and the grid shape changed in between.  *)

NextPaint ==
    \/ \E editMode \in BOOLEAN, showBorders \in BOOLEAN,
          selected \in SelectedTiles, r \in CellIndices, c \in CellIndices :
          HandleCellInteraction(editMode, showBorders, selected, r, c)
    \/ \E t \in {EditTab, ChatTab} : ActiveTabSet(t)
    \/ \E candidateMap \in SampleMaps : HandleCandidateClick(candidateMap)
    \/ \E shape \in SampleShapes : SetMapSize(shape)

SpecPaint == Init /\ [][NextPaint]_vars

----------------------------------------------------------------------------
(* Properties *)

Min(a, b) == IF a < b THEN a ELSE b

LastN(seq, k) == SubSeq(seq, Len(seq) - k + 1, Len(seq))

Appended == last.op = "appendHistory" /\ last.err = ""

\* C1: whenever the Log is non-empty, 0 <= cursor < length(Log), in every
\* state reached by appendHistory, undo, redo, setHistoryCursor and
\* loadCheckpoint called with any argument.
C1_CursorInBounds ==
    Len(gridHistory) > 0 =>
        (0 <= historyCursor /\ historyCursor < Len(gridHistory))

\* C2: in an append-only session (seeded Log, fixed maxHistoryLength, every
\* append made at the current cursor) the Log never exceeds maxHistoryLength,
\* it is the last min(n, maxHistoryLength) of the n entries ever stored, in
\* their order, and the cursor is on the last entry.
C2_SlidingWindow ==
    /\ Len(gridHistory) <= maxHistoryLength
    /\ gridHistory = LastN(stored, Min(Len(stored), maxHistoryLength))
    /\ historyCursor = Len(gridHistory) - 1

\* maxLength 3, five entries stored (D0, S1..S4): the Log is the last three.
C2_Witness ==
    /\ last.op = "appendHistory"
    /\ maxHistoryLength = 3
    /\ Len(stored) = 5
    /\ gridHistory = SubSeq(stored, 3, 5)
    /\ gridHistory # SubSeq(stored, 1, 3)
    /\ historyCursor = 2

\* C3: length(Log) <= maxLength in every reachable state, also after
\* maxHistoryLength was set to a smaller positive value at run time.
C3_LengthWithinMax == Len(gridHistory) <= maxHistoryLength

\* C4: appendHistory(X, c) with c valid and c + 2 <= maxLength yields the
\* Log L[0..c] followed by X, whatever the stored cursor was.
C4_Branching ==
    (Appended /\ last.n.int + 2 <= last.pre.max) =>
        gridHistory =
            SubSeq(last.pre.history, 1, last.n.int + 1) \o << last.state >>

\* Log of four entries, append at index 1 while the stored cursor is
\* elsewhere: two entries are discarded.
C4_Witness ==
    /\ Appended
    /\ last.n.int + 2 <= last.pre.max
    /\ Len(last.pre.history) = 4
    /\ last.n.int = 1
    /\ last.pre.cursor # last.n.int
    /\ Len(gridHistory) = 3

\* C5: after every successful appendHistory, trimmed or not, the cursor is
\* length(Log) - 1 and Log[cursor] is the state just appended.
C5_CursorOnAppended ==
    Appended =>
        /\ historyCursor = Len(gridHistory) - 1
        /\ historyCursor >= 0
        /\ gridHistory[historyCursor + 1] = last.state

\* A successful append whose branched log was longer than maxLength.
C5_Witness ==
    /\ Appended
    /\ last.n.int + 2 > last.pre.max
    /\ Len(gridHistory) = last.pre.max
    /\ Len(gridHistory) >= 2
    /\ gridHistory[Len(gridHistory) - 1] # last.state

\* C6: no subscriber notified while appendHistory commits reads a
\* (Log, Cursor) pair with cursor >= length(Log).  Stated for calls made
\* while the stored cursor was itself within the Log.
C6_NoTornNotice ==
    (Appended /\ last.pre.cursor < Len(last.pre.history)) =>
        \A i \in DOMAIN last.notified :
            last.notified[i].cursor < Len(last.notified[i].history)

\* C7: undo() never fails; with cursor > 0 it decrements the cursor, leaves
\* the Log unchanged and returns Log[newCursor]; with cursor = 0 it returns
\* undefined and changes nothing.
C7_UndoOutcome ==
    last.op = "undo" =>
        /\ last.err = ""
        /\ gridHistory = last.pre.history
        /\ IF last.pre.cursor > 0
           THEN /\ historyCursor = last.pre.cursor - 1
                /\ last.ret = gridHistory[historyCursor + 1]
           ELSE /\ historyCursor = last.pre.cursor
                /\ last.ret = undefined

\* C8: redo() never fails; with cursor < length(Log) - 1 it increments the
\* cursor, leaves the Log unchanged and returns Log[newCursor]; otherwise
\* (empty Log included) it returns undefined and changes nothing.
C8_RedoOutcome ==
    last.op = "redo" =>
        /\ last.err = ""
        /\ gridHistory = last.pre.history
        /\ IF last.pre.cursor < Len(last.pre.history) - 1
           THEN /\ historyCursor = last.pre.cursor + 1
                /\ last.ret = gridHistory[historyCursor + 1]
           ELSE /\ historyCursor = last.pre.cursor
                /\ last.ret = undefined

\* A redo that moved the cursor and returned an entry.
C8_Witness ==
    /\ last.op = "redo"
    /\ historyCursor = last.pre.cursor + 1
    /\ last.ret = gridHistory[historyCursor + 1]
    /\ last.ret \in SampleMaps

\* C9: from 0 < cursor < length(Log), undo() then redo() restores Log and
\* cursor and the redo returns the entry that was current; from
\* cursor < length(Log) - 1, redo() then undo() restores Log and cursor.
C9_RoundTrip ==
    /\ (/\ last.op = "redo" /\ prev.op = "undo"
        /\ 0 < prev.pre.cursor
        /\ prev.pre.cursor < Len(prev.pre.history)) =>
            /\ gridHistory = prev.pre.history
            /\ historyCursor = prev.pre.cursor
            /\ last.ret = prev.pre.history[prev.pre.cursor + 1]
    /\ (/\ last.op = "undo" /\ prev.op = "redo"
        /\ 0 <= prev.pre.cursor
        /\ prev.pre.cursor < Len(prev.pre.history) - 1) =>
            /\ gridHistory = prev.pre.history
            /\ historyCursor = prev.pre.cursor

\* undo() then redo() from a cursor that is neither first nor last.
C9_Witness ==
    /\ last.op = "redo" /\ prev.op = "undo"
    /\ 0 < prev.pre.cursor
    /\ prev.pre.cursor < Len(prev.pre.history) - 1
    /\ last.pre.cursor = prev.pre.cursor - 1
    /\ historyCursor = prev.pre.cursor
    /\ last.ret \in SampleMaps

\* C10: setHistoryCursor(c) with c negative, not an integer or
\* >= length(Log) fails with an assertion error and changes nothing; with
\* 0 <= c < length(Log) it sets the cursor to c and leaves the Log unchanged.
C10_SetHistoryCursor ==
    last.op = "setHistoryCursor" =>
        /\ gridHistory = last.pre.history
        /\ IF \/ ~IsInteger(last.n)
              \/ last.n.int < 0
              \/ last.n.int >= Len(last.pre.history)
           THEN last.err # "" /\ historyCursor = last.pre.cursor
           ELSE last.err = "" /\ historyCursor = last.n.int

\* setHistoryCursor(length) on a non-empty Log was rejected.
C10_Witness ==
    /\ last.op = "setHistoryCursor"
    /\ IsInteger(last.n)
    /\ last.n.int = Len(last.pre.history)
    /\ Len(last.pre.history) >= 2
    /\ last.n.int # last.pre.cursor
    /\ last.err = "cursor must be less than the history length"
    /\ historyCursor = last.pre.cursor

\* The cursor argument of the latest call violates the precondition.
BadCursor(n, history) ==
    n.frac # 0 \/ n.int < 0 \/ n.int >= Len(history)

\* C11: appendHistory(state, c) and loadCheckpoint(c) with c negative, not
\* an integer or >= length(Log) fail with an assertion error and leave Log,
\* Cursor and maxLength unchanged.
C11_RejectedCallAppliesNothing ==
    (/\ last.op \in {"appendHistory", "loadCheckpoint"}
     /\ BadCursor(last.n, last.pre.history)) =>
        /\ last.err # ""
        /\ Stores = last.pre
        /\ last.notified = << >>

\* appendHistory(state, 1.5) on a Log of at least two entries was rejected.
C11_Witness ==
    /\ last.op = "appendHistory"
    /\ last.n = [int |-> 1, frac |-> 1]
    /\ Len(last.pre.history) >= 2
    /\ last.err = "cursor must be an integer"
    /\ Stores = last.pre

\* C12: loadCheckpoint(c) with a valid index c replaces the Log by its
\* prefix Log[0..c] (length c + 1, entries unchanged) and leaves the Cursor
\* store and maxLength unchanged.
C12_LoadCheckpointPrefix ==
    (last.op = "loadCheckpoint" /\ ~BadCursor(last.n, last.pre.history)) =>
        /\ last.err = ""
        /\ Len(gridHistory) = last.n.int + 1
        /\ gridHistory = SubSeq(last.pre.history, 1, last.n.int + 1)
        /\ historyCursor = last.pre.cursor
        /\ maxHistoryLength = last.pre.max

\* loadCheckpoint(1) on a Log of four entries with the cursor elsewhere.
C12_Witness ==
    /\ last.op = "loadCheckpoint"
    /\ last.err = ""
    /\ last.n = Int0(1)
    /\ Len(last.pre.history) = 4
    /\ Len(gridHistory) = 2
    /\ historyCursor = 3

\* C13: from the initial stores (Log empty, Cursor 0) every appendHistory
\* fails its precondition, and no sequence of controller operations makes
\* the Log non-empty.
C13_EmptyLogStaysEmpty ==
    /\ gridHistory = << >>
    /\ historyCursor = 0
    /\ last.op = "appendHistory" => last.err # ""

\* appendHistory(state, 0) was tried on the empty Log and rejected.
C13_Witness ==
    /\ last.op = "appendHistory"
    /\ last.n = Int0(0)
    /\ last.state \in SampleMaps
    /\ last.err = "cursor must be less than the history length"
    /\ gridHistory = << >>

\* C16: a successful appendHistory trims against the value maxHistoryLength
\* holds at the call: the Log is at most that long and is the tail of the
\* branched log L[0..c] ++ [state].
C16_TrimAtCurrentMax ==
    Appended =>
        LET branched == SubSeq(last.pre.history, 1, last.n.int + 1)
                            \o << last.state >>
        IN /\ maxHistoryLength = last.pre.max
           /\ Len(gridHistory) <= maxHistoryLength
           /\ gridHistory =
                  LastN(branched, Min(Len(branched), maxHistoryLength))

\* An append made after maxHistoryLength was lowered below the Log's length.
C16_Witness ==
    /\ Appended
    /\ last.pre.max < Len(last.pre.history)
    /\ last.pre.max >= 2
    /\ last.n.int + 2 > last.pre.max
    /\ Len(gridHistory) = last.pre.max

\* A rows x cols grid whose tiles are all EMPTY, rows and cols being the
\* configured grid shape.
IsDefaultMapOfShape(map, gridSize) ==
    /\ Len(map) = gridSize[1]
    /\ \A r \in 1 .. Len(map) :
          /\ Len(map[r]) = gridSize[2]
          /\ \A c \in 1 .. Len(map[r]) : map[r][c] = EMPTY

\* Every rectangular map of a sample shape over the painted tiles.
ShapedMaps ==
    UNION { [1 .. shape[1] -> [1 .. shape[2] -> PaintTiles]] :
                shape \in SampleShapes }

\* C17: mapState.set(map) writes the serialized map under "map" and leaves
\* every other key of the hash record, "activeTab" in particular, with its
\* previous value.
C17_SetPreservesOtherKeys ==
    gs.op = "set" =>
        /\ hash.map = JsonStringify(gs.arg)
        /\ hash.activeTab = gs.pre.activeTab

\* C18: with no "map" entry or a text that is not parseable JSON in the
\* hash, get() and the value handed to subscribers are the all-EMPTY map of
\* the configured shape, and no exception escapes.
C18_FallbackToDefault ==
    /\ (gs.op = "get" /\ hash.map \in {NoEntry} \cup UnparseableTexts) =>
          /\ ~gs.threw
          /\ ~gs.read.threw
          /\ IsDefaultMapOfShape(gs.read.map, mapSize)
    /\ (gs.op = "hashchange" /\ hash.map \in {NoEntry} \cup UnparseableTexts) =>
          /\ ~gs.delivered.threw
          /\ IsDefaultMapOfShape(gs.delivered.map, mapSize)

\* get() on a hash whose "map" entry is unparseable, shape 2 x 1.
C18_Witness ==
    /\ gs.op = "get"
    /\ hash.map \in UnparseableTexts
    /\ mapSize = << 2, 1 >>
    /\ gs.read.map = << << EMPTY >>, << EMPTY >> >>
    /\ gs.read.logged

\* C19: mapState.update(fn) applies fn to the map parsed from the hash, or
\* to the default map when the entry is absent or unparseable, and stores
\* fn's result as the new "map" entry; a parse failure never aborts it.
C19_UpdateReadModifyWrite ==
    gs.op = "update" =>
        /\ (gs.pre.map \in {NoEntry} \cup UnparseableTexts) =>
              /\ ~gs.threw
              /\ IsDefaultMapOfShape(gs.read.map, mapSize)
              /\ gs.result = ApplyUpdater(gs.fn, gs.read.map)
              /\ hash.map = JsonStringify(gs.result)
        /\ \A m \in ShapedMaps :
              gs.pre.map = JsonStringify(m) =>
                  /\ ~gs.threw
                  /\ gs.read.map = m
                  /\ gs.result = ApplyUpdater(gs.fn, m)
                  /\ hash.map = JsonStringify(gs.result)

\* update painted a WALL into the default map because the entry was
\* unparseable.
C19_Witness ==
    /\ gs.op = "update"
    /\ gs.pre.map \in UnparseableTexts
    /\ gs.fn = Updater(0, 1, WALL)
    /\ mapSize = << 1, 2 >>
    /\ gs.result = << << EMPTY, WALL >> >>
    /\ hash.map = << "[", "[", "1", ",", "2", "]", "]" >>

\* The map a reader of the Grid State container gets now
LiveMap == readMap(hash, mapSize).map

\* C14: after an accepted edit action (paint, random map, reset, candidate)
\* the new map has been appended through appendHistory, and the Log entry
\* under the cursor is the live Grid State.
C14_EditAppendsToLog ==
    (ui.op \in EditOps /\ ui.accepted) =>
        /\ last.op = "appendHistory"
        /\ last.state = ui.map
        /\ JsIndex(gridHistory, historyCursor) = LiveMap

\* C15: after a user undo or redo that succeeded, the History Cursor has
\* moved by one and the Grid State container holds Log[cursor].
C15_UserUndoRedoMovesCursor ==
    (ui.op \in UndoRedoOps /\ ui.accepted) =>
        /\ historyCursor =
               ui.cursor + (IF ui.op = "handleUndo" THEN -1 ELSE 1)
        /\ JsIndex(gridHistory, historyCursor) = LiveMap

\* The hash holds at most one map text, the serialization of the live map
SinkHoldsOnlyCurrentMap ==
    /\ DOMAIN hash = {"map", "activeTab"}
    /\ \/ hash.map = NoEntry
       \/ /\ JsonParse(hash.map).kind = "grid"
          /\ hash.map = JsonStringify(LiveMap)

StoreValues == <<gridHistory, historyCursor, maxHistoryLength>>

\* A step in which a controller operation (or a write to one of its stores)
\* ran, and one in which a Grid State operation ran
ControllerCalled == last' # last

GridStateCalled == gs' # gs

\* C20: no controller operation changes the Grid State container or the
\* hash, no Grid State operation changes the Log, the Cursor or
\* maxHistoryLength, and the hash never holds more than the current map.
C20_LayersAreIndependent ==
    /\ [] SinkHoldsOnlyCurrentMap
    /\ [][ /\ ControllerCalled => UNCHANGED <<hash, mapSize, gs>>
           /\ GridStateCalled => UNCHANGED <<StoreValues, last>>
           /\ <<hash, mapSize>>' # <<hash, mapSize>> => GridStateCalled
           /\ StoreValues' # StoreValues => ControllerCalled
         ]_vars

C20_Witness ==
    /\ last.op = "appendHistory"
    /\ last.err = ""
    /\ Len(gridHistory) = 2
    /\ historyCursor = 1
    /\ gs.op = "update"
    /\ ~gs.threw
    /\ LiveMap # gridHistory[historyCursor + 1]

\* C21: after mapState.set(m), a get with no write in between returns a map
\* equal to m, for every map m over the tileset.
C21_SetThenGet ==
    /\ gs.op = "set" =>
          /\ hash.map = JsonStringify(gs.arg)
          /\ ~readMap(hash, mapSize).threw
          /\ LiveMap = gs.arg
          /\ gs.delivered.map = gs.arg
    /\ (gs.op = "get" /\ hash.map # NoEntry) =>
          \E m \in RoundTripMaps :
              /\ hash.map = JsonStringify(m)
              /\ gs.read.map = m
              /\ ~gs.threw

\* A map with a border tile and a bat was set and then read back.
C21_Witness ==
    /\ gs.op = "get"
    /\ gs.pre.map = JsonStringify(<< << BORDER, BAT >> >>)
    /\ gs.read.map = << << BORDER, BAT >> >>

\* C22: the default map of a grid shape (rows, cols) has rows rows of cols
\* tiles, all EMPTY; after the shape changed, the map the Grid State falls
\* back to has the new shape.
C22_DefaultFollowsShape ==
    /\ \A shape \in SampleShapes :
          IsDefaultMapOfShape(defaultMapState(shape), shape)
    /\ (gs.op = "setMapSize" /\ hash.map \in {NoEntry, << >>} \cup UnparseableTexts)
          => IsDefaultMapOfShape(LiveMap, mapSize)

\* The shape was changed to two rows of one tile while the hash has no map.
C22_Witness ==
    /\ gs.op = "setMapSize"
    /\ mapSize = << 2, 1 >>
    /\ hash.map = NoEntry
    /\ LiveMap = << << EMPTY >>, << EMPTY >> >>

ControllerOps ==
    {"setHistoryCursor", "undo", "redo", "loadCheckpoint", "appendHistory"}

\* seq is entries i..j of old, in the same order
IsRunOf(seq, old) ==
    \E i \in 1 .. Len(old) + 1, j \in 0 .. Len(old) : seq = SubSeq(old, i, j)

\* C23: after a controller operation the Log is a contiguous run of the
\* previous Log's entries, unchanged and in order, optionally followed by
\* the one newly appended state.
C23_EntriesImmutable ==
    last.op \in ControllerOps =>
        \/ IsRunOf(gridHistory, last.pre.history)
        \/ /\ last.op = "appendHistory"
           /\ last.err = ""
           /\ gridHistory # << >>
           /\ gridHistory[Len(gridHistory)] = last.state
           /\ IsRunOf(SubSeq(gridHistory, 1, Len(gridHistory) - 1),
                      last.pre.history)

\* An append at index 1 of a three-entry Log under a window of two: the
\* Log is the entry that was at index 1 followed by the new state.
C23_Witness ==
    /\ last.op = "appendHistory"
    /\ last.err = ""
    /\ Len(last.pre.history) = 3
    /\ last.n = Int0(1)
    /\ last.pre.max = 2
    /\ last.pre.history[1] # last.pre.history[2]
    /\ gridHistory = << last.pre.history[2], last.state >>

\* appendHistory(state, c) succeeded with c the current cursor
AppendedAtCursor ==
    /\ Appended
    /\ last.n = Int0(last.pre.cursor)

EditRecorded ==
    /\ last.op = "appendHistory"
    /\ last.n = Int0(last.pre.cursor)
    /\ last.pre.max = MAX_GRID_HISTORY_LENGTH

\* C25: from gridHistory = [] and historyCursor = 0, with each edit recorded
\* by appendHistory at the current cursor: the first edit gives [State0]
\* and cursor 0, the second [State0, State1] and cursor 1, an undo leaves
\* the Log and gives cursor 0, and a new edit gives [State0, NewState] and
\* cursor 1.
C25_DataFlowExample ==
    /\ (EditRecorded /\ last.pre.history = << >> /\ last.pre.cursor = 0) =>
          /\ gridHistory = << last.state >>
          /\ historyCursor = 0
    /\ (EditRecorded /\ Len(last.pre.history) = 1 /\ last.pre.cursor = 0) =>
          /\ gridHistory = last.pre.history \o << last.state >>
          /\ historyCursor = 1
    /\ (last.op = "undo" /\ Len(last.pre.history) = 2 /\ last.pre.cursor = 1) =>
          /\ gridHistory = last.pre.history
          /\ historyCursor = 0
    /\ (EditRecorded /\ Len(last.pre.history) = 2 /\ last.pre.cursor = 0) =>
          /\ gridHistory = << last.pre.history[1], last.state >>
          /\ historyCursor = 1

\* C26: when the hash has no "activeTab" entry, or one that is neither
\* "edit" nor "chat", a subscriber of activeTab is handed "edit".
C26_TabDefaultsToEdit ==
    hash.activeTab \notin {EditTab, ChatTab} => currentTab(hash) = EditTab

\* C27: whatever the "map" entry of the hash holds, the value get returns,
\* the value handed to subscribers and the value passed to update's
\* function is a 2D tile grid.
C27_ReadsAreGrids ==
    /\ gs.op = "get" => gs.read.kind = "grid"
    /\ gs.delivered # NoRead => gs.delivered.kind = "grid"
    /\ gs.op = "update" => gs.read.kind = "grid"

\* new has the dimensions of old and differs from it at most in cell
\* (r, c), counted from 0, which holds tile
PaintedOneCell(old, new, r, c, tile) ==
    /\ Len(new) = Len(old)
    /\ r \in 0 .. Len(old) - 1
    /\ \A i \in 1 .. Len(old) :
          /\ Len(new[i]) = Len(old[i])
          /\ \A j \in 1 .. Len(old[i]) :
                IF i = r + 1 /\ j = c + 1 THEN new[i][j] = tile
                ELSE new[i][j] = old[i][j]
    /\ c \in 0 .. Len(old[r + 1]) - 1

\* The interaction is one the handler must ignore: edit mode off, the tab
\* not "edit", no tile selected, or a border cell of the shown grid
MustBeIgnored(editMode, showBorders, selected, r, c) ==
    \/ ~editMode
    \/ selected = << >>
    \/ currentTab(hash) # EditTab
    \/ /\ showBorders
       /\ \/ r = 0
          \/ c = 0
          \/ r = Len(LiveMap) + 1
          \/ c = Len(LiveMap[1]) + 1

\* C28: an accepted cell interaction at map coordinates (r, c) gives a map
\* of the same dimensions that differs from the previous one at most in
\* cell (r, c), which holds the selected tile; an interaction with edit
\* mode off, the tab not "edit", no tile selected or on a border cell
\* leaves the Grid State unchanged.
C28_PaintOneCell ==
    /\ [] ((ui.op = "paint" /\ ui.accepted /\ gs.op = "update") =>
              /\ ~gs.threw
              /\ LiveMap = ui.map
              /\ PaintedOneCell(gs.read.map, LiveMap, gs.fn.r, gs.fn.c,
                                gs.fn.tile))
    \* a step that changes the Grid State is not an interaction of the
    \* kind that must be ignored
    /\ [][ \/ UNCHANGED <<hash, mapSize>>
           \/ \A editMode \in BOOLEAN, showBorders \in BOOLEAN,
                 selected \in SelectedTiles, r \in CellIndices,
                 c \in CellIndices :
                 ~ /\ MustBeIgnored(editMode, showBorders, selected, r, c)
                   /\ HandleCellInteraction(editMode, showBorders, selected,
                                            r, c)
         ]_vars

\* With borders shown, the second inner cell of a one-row map was painted
\* with a wall.
C28_Witness ==
    /\ ui.op = "paint"
    /\ ui.accepted
    /\ gs.fn = Updater(0, 1, WALL)
    /\ gs.read.map = << << EMPTY, EMPTY >> >>
    /\ LiveMap = << << EMPTY, WALL >> >>

\* Every map of a candidate: its frames and its final map
MapsOf(candidate) ==
    {candidate.map} \cup {candidate.states[i] : i \in DOMAIN candidate.states}

\* C29: at most one selection-animation timer exists; what the page writes
\* to the Grid State after a click is a frame or the final map of the
\* candidate clicked last, never of an earlier one; when the animation
\* reaches its last frame the Grid State holds that candidate's final map
\* and no timer is left.
C29_OneAnimationAtATime ==
    /\ Cardinality(anim.timers) <= 1
    /\ anim.timers \subseteq {anim.timer}
    /\ ui.op \in {"candidate", "frame", "complete"} =>
          /\ ui.map \in MapsOf(anim.clicked)
          /\ \A earlier \in Candidates :
                (earlier.id = anim.interrupted /\ earlier # anim.clicked)
                    => ui.map \notin MapsOf(earlier)
          /\ LiveMap = ui.map
    /\ ui.op = "complete" =>
          /\ LiveMap = anim.clicked.map
          /\ anim.timers = {}
          /\ anim.timer = 0
          /\ ~anim.playing

\* Candidate B was clicked while A's animation was playing, and B's
\* animation has run to its end.
C29_Witness ==
    /\ ui.op = "complete"
    /\ anim.clicked.id = "B"
    /\ anim.interrupted = "A"
    /\ LiveMap = << << BAT, EMPTY >> >>

\* C30: the chat has at most one inference request in flight: a request
\* starts only while isLoadingAPI is false, a send during a pending request
\* changes nothing, and isLoadingAPI is false again once the request has
\* settled, whatever its outcome.
C30_OneRequestInFlight ==
    /\ [] (/\ chat.inFlight <= 1
           /\ chat.isLoadingAPI <=> chat.inFlight = 1
           /\ chat.last = "settled" => ~chat.isLoadingAPI
           /\ chat.last = "sent" => chat.isLoadingAPI)
    /\ [][ /\ chat'.inFlight > chat.inFlight => ~chat.isLoadingAPI
           /\ (chat.isLoadingAPI /\ chat'.last = "ignored") =>
                 /\ chat'.messages = chat.messages
                 /\ chat'.inFlight = chat.inFlight
                 /\ chat'.isLoadingAPI
         ]_vars

\* A second request was sent after the first one failed.
C30_Witness ==
    /\ chat.last = "sent"
    /\ Len(chat.messages) = 3
    /\ chat.messages[2] = Message(FALSE, << "E" >>)
    /\ chat.inFlight = 1

====
